---- MODULE Spec2Model ----
(***************************************************************************)
(* Vocabulary store of Fuga_578.py (class VocabManager) together with the  *)
(* tokenizer and concordance helpers it calls.                             *)
(*                                                                         *)
(* Representation                                                          *)
(*   - a character is a one-character string, a text or a word is a        *)
(*     sequence of characters;                                             *)
(*   - the dict self.vocab is a sequence of entries in insertion order     *)
(*     (Python dicts are ordered); the key of an entry is its "word"       *)
(*     field, which add_word always sets to the key;                       *)
(*   - an entry is a record with the keys of the dict literal of add_word; *)
(*     the key "translation" is present only once a translation was        *)
(*     imported;                                                           *)
(*   - datetime.now() is the tick counter `now`, which never goes back;    *)
(*     the reads of the clock made by one call all fall in the same tick;  *)
(*     timestamps of an earlier session are negative;                      *)
(*   - the list clean_expired_words returns is the operator expired_words; *)
(*     the other operations return None or a value no caller uses.         *)
(***************************************************************************)
EXTENDS Integers, Sequences, FiniteSets, TLC

\* ------------------------------------------------------------------ bounds

\* Last tick of the clock.
MaxTime == 1

\* Cap of encounter_count (the code's counter is unbounded).
MaxEnc == 1

\* ------------------------------------------------------- program constants

\* clean_expired_words(self, days=3)
DefaultDays == 3

\* get_concordance(word, text, window=5)
Window == 5

\* return concordances[:3]
MaxConcordance == 3

\* --------------------------------------------------------------- alphabet

\* Characters of the class [a-zA-ZäöüßÄÖÜ] used by the model.
Letters == {"a", "A", "b"}

\* Characters that \b counts as word characters without being in the class.
OtherWordChars == {"1", "_"}

IsLetter(c) == c \in Letters

IsWordChar(c) == c \in Letters \cup OtherWordChars

\* The words the operations are called with: two case variants.
W1 == <<"a">>
W2 == <<"A">>
Words == {W1, W2}

\* The texts add_word is called with: "", "a A" and "a1 a a a a b b a",
\* where "a1" is no token and "a" occurs five times among seven tokens.
T0 == <<>>
T1 == <<"a", " ", "A">>
T2 == <<"a", "1", " ", "a", " ", "a", " ", "a", " ", "a", " ",
        "b", " ", "b", " ", "a">>
Texts == {T0, T1, T2}

\* ---------------------------------------------------- tokenizer, concordance

\* \b at the gap before position i of text (1-based; i = Len+1 is the end).
WordBoundary(text, i) ==
    LET before == i > 1 /\ IsWordChar(text[i - 1])
        after  == i <= Len(text) /\ IsWordChar(text[i])
    IN  before # after

\* Last position of the run of class letters that starts at position i.
RECURSIVE RunEnd(_, _)
RunEnd(text, i) ==
    IF i < Len(text) /\ IsLetter(text[i + 1]) THEN RunEnd(text, i + 1) ELSE i

\* re.findall(r'\b[a-zA-ZäöüßÄÖÜ]+\b', text), scanning from position i.
RECURSIVE FindAllFrom(_, _)
FindAllFrom(text, i) ==
    IF i > Len(text) THEN <<>>
    ELSE IF IsLetter(text[i]) /\ WordBoundary(text, i)
              /\ WordBoundary(text, RunEnd(text, i) + 1)
         THEN <<SubSeq(text, i, RunEnd(text, i))>>
                  \o FindAllFrom(text, RunEnd(text, i) + 1)
         ELSE FindAllFrom(text, i + 1)

simple_tokenize(text) == FindAllFrom(text, 1)

\* ' '.join(tokens)
RECURSIVE JoinSpace(_)
JoinSpace(tokens) ==
    IF tokens = <<>> THEN <<>>
    ELSE IF Len(tokens) = 1 THEN tokens[1]
    ELSE tokens[1] \o <<" ">> \o JoinSpace(Tail(tokens))

Max(a, b) == IF a >= b THEN a ELSE b

Min(a, b) == IF a <= b THEN a ELSE b

\* The contexts of the occurrences of word among tokens[i..], in order.
RECURSIVE ContextsFrom(_, _, _)
ContextsFrom(word, tokens, i) ==
    IF i > Len(tokens) THEN <<>>
    ELSE IF tokens[i] = word
         THEN <<JoinSpace(SubSeq(tokens, Max(1, i - Window),
                                         Min(Len(tokens), i + Window)))>>
                  \o ContextsFrom(word, tokens, i + 1)
         ELSE ContextsFrom(word, tokens, i + 1)

get_concordance(word, text) ==
    LET all == ContextsFrom(word, simple_tokenize(text), 1)
    IN  SubSeq(all, 1, Min(Len(all), MaxConcordance))

\* ------------------------------------------------------------ the dict

Keys(v) == {v[i].word : i \in DOMAIN v}

\* word in self.vocab
Has(v, w) == w \in Keys(v)

\* self.vocab[word]
Get(v, w) == v[CHOOSE i \in DOMAIN v : v[i].word = w]

\* Lower case of a character.
Lower(c) == IF c = "A" THEN "a" ELSE c

\* An assignment that reaches every key that matches w without regard to case.
PutIgnoringCase(v, w, e) ==
    [i \in DOMAIN v |->
        IF [k \in DOMAIN v[i].word |-> Lower(v[i].word[k])]
              = [k \in DOMAIN w |-> Lower(w[k])]
        THEN e ELSE v[i]]

\* self.vocab[word] = e for a key that is present: the key keeps its place
Put(v, w, e) == [i \in DOMAIN v |-> IF v[i].word = w THEN e ELSE v[i]]

\* del self.vocab[word]
Del(v, w) == SelectSeq(v, LAMBDA e : e.word # w)

\* {k: v for k, v in d.items() if v["status"] == s}
WithStatus(v, s) == SelectSeq(v, LAMBDA e : e.status = s)

\* The elements of a sequence.
Range(s) == {s[i] : i \in DOMAIN s}

\* ---------------------------------------------------------------- state

VARIABLES
    vocab,   \* self.vocab of the VocabManager
    disk,    \* vocab.json: [exists |-> BOOLEAN, doc |-> the document]
    now,     \* datetime.now()
    trip,    \* observer of a promote followed by a demote of the same word
    call,    \* a call of a text function: its arguments and what it returned
    session_state,   \* st.session_state of the browser session
    db,      \* reading_stats.db: the tables books and reading_sessions
    cache    \* text_cache.txt: [exists |-> BOOLEAN, text |-> its content]

vars == <<vocab, disk, now, trip, call, session_state, db, cache>>

\* What the VocabManager methods leave alone.
outside_store == <<call, session_state, db, cache>>

\* An optional value is <<>> for None and <<x>> for x.
None == <<>>

\* A database without rows, a text cache that was never written, and a
\* session in which nothing was selected or started.
NoDb == [books |-> <<>>, sessions |-> <<>>, locked |-> FALSE]

NoCache == [exists |-> FALSE, text |-> <<>>]

Unset == [set |-> FALSE, index |-> 0, words |-> <<>>]

NoSession == [book_selector |-> None, review |-> Unset, test |-> Unset,
              aborted |-> "no"]

\* No call of a text function.
NoCall == [text |-> <<>>, target_tokens |-> {}, max_length |-> <<>>,
           returned |-> FALSE, excerpt |-> <<>>, covered_count |-> 0]

\* ------------------------------------------------------------ persistence

\* VocabManager.load_vocab: the document, or {} when the file is missing
load_vocab(d) == IF d.exists THEN d.doc ELSE <<>>

\* The file after VocabManager.save_vocab wrote the document v.
Saved(v) == [exists |-> TRUE, doc |-> v]

\* ------------------------------------------------------------ the observer

Idle ==
    [stage |-> "idle", word |-> <<>>, added_date |-> 0, encounter_count |-> 0,
     promoted_at |-> 0, demoted_at |-> 0]

\* A call of mark_as_familiar(w) at tick t on the store v.
ObservePromote(v, w, t) ==
    IF Has(v, w) /\ Get(v, w).status = "learning"
    THEN [stage |-> "promoted", word |-> w,
          added_date |-> Get(v, w).added_date,
          encounter_count |-> Get(v, w).encounter_count,
          promoted_at |-> t, demoted_at |-> 0]
    ELSE Idle

\* A call of mark_as_learning(w) at tick t, the observer being in state o.
ObserveDemote(o, w, t) ==
    IF o.stage = "promoted" /\ o.word = w
    THEN [o EXCEPT !.stage = "demoted", !.demoted_at = t]
    ELSE Idle

\* ------------------------------------------------------------ entries

\* The dict literal of add_word for a word that is not in the store.
NewEntry(word, text, t) ==
    [word |-> word,
     added_date |-> t,
     last_review |-> t,
     status |-> "learning",
     encounter_count |-> 0,
     concordance |-> IF text # <<>> THEN get_concordance(word, text) ELSE <<>>]

\* The else branch of add_word with the concordance recomputed from every
\* non-empty text.
ExistingEntryOverwrites(e, word, text, t) ==
    LET e1 == IF text # <<>>
              THEN [e EXCEPT !.concordance = get_concordance(word, text)]
              ELSE e
    IN  IF e1.status = "familiar"
        THEN [e1 EXCEPT !.status = "learning", !.added_date = t]
        ELSE e1

\* The else branch of add_word: the entry e of a word that is in the store.
ExistingEntry(e, word, text, t) ==
    LET e1 == IF text # <<>> /\ e.concordance = <<>>
              THEN [e EXCEPT !.concordance = get_concordance(word, text)]
              ELSE e
    IN  IF e1.status = "familiar"
        THEN [e1 EXCEPT !.status = "learning", !.added_date = t]
        ELSE e1

\* mark_as_familiar with the status misspelt.
PromotedMisspelt(e, t) == [e EXCEPT !.status = "familar", !.last_review = t]

\* The assignments of mark_as_familiar.
Promoted(e, t) == [e EXCEPT !.status = "familiar", !.last_review = t]

\* mark_as_learning without the reset of added_date.
DemotedKeepsDate(e, t) == [e EXCEPT !.status = "learning", !.last_review = t]

\* mark_as_learning rebuilding the entry as add_word builds a new one.
DemotedLosesHistory(e, t) ==
    [e EXCEPT !.status = "learning", !.last_review = t, !.added_date = t,
              !.encounter_count = 0]

\* The assignments of mark_as_learning.
Demoted(e, t) ==
    [e EXCEPT !.status = "learning", !.last_review = t, !.added_date = t]

\* The assignment of increment_encounter.
Reinforced(e) == [e EXCEPT !.encounter_count = e.encounter_count + 1]

\* The test of clean_expired_words with <= for <.
IsExpiredInclusive(meta, cutoff) ==
    meta.status = "learning" /\ meta.added_date <= cutoff

\* The test of clean_expired_words on one item of the dict.
IsExpired(meta, cutoff) ==
    meta.status = "learning" /\ meta.added_date < cutoff

\* ------------------------------------------------------------ initial state

\* A document an earlier run saved, some days before this session: a learning
\* word with its concordance and an imported translation, and a word that
\* was promoted and met once more since.
SavedDoc ==
    << [word |-> W1, added_date |-> -3, last_review |-> -3,
        status |-> "learning", encounter_count |-> 0,
        concordance |-> get_concordance(W1, T1),
        translation |-> <<"b">>],
       [word |-> W2, added_date |-> -4, last_review |-> -3,
        status |-> "familiar", encounter_count |-> 1,
        concordance |-> get_concordance(W2, T1)] >>

InitDisks == {[exists |-> FALSE, doc |-> <<>>], Saved(SavedDoc)}

Init ==
    /\ disk \in InitDisks
    /\ vocab = load_vocab(disk)
    /\ now = 0
    /\ trip = Idle
    /\ call = NoCall
    /\ session_state = NoSession
    /\ db = NoDb
    /\ cache = NoCache

\* ------------------------------------------------------------ operations

\* The clock advances.
Tick ==
    /\ now < MaxTime
    /\ now' = now + 1
    /\ UNCHANGED <<vocab, disk, trip>>

\* VocabManager.__init__: a new session loads the document.
VocabManager_init ==
    /\ vocab' = load_vocab(disk)
    /\ trip' = Idle
    /\ UNCHANGED <<disk, now>>

save_vocab ==
    /\ disk' = Saved(vocab)
    /\ trip' = Idle
    /\ UNCHANGED <<vocab, now>>

\* The store v after add_word(word, text) at time t.
WordAdded(v, word, text, t) ==
    IF ~Has(v, word)
    THEN Append(v, NewEntry(word, text, t))
    ELSE Put(v, word, ExistingEntry(Get(v, word), word, text, t))

add_word(word, text) ==
    /\ UNCHANGED <<disk, now>>
    /\ trip' = Idle
    /\ vocab' = WordAdded(vocab, word, text, now)

\* The store v after mark_as_familiar(word) at time t.
WordPromoted(v, word, t) ==
    IF Has(v, word) THEN Put(v, word, Promoted(Get(v, word), t)) ELSE v

\* The store v after mark_as_learning(word) at time t.
WordDemoted(v, word, t) ==
    IF Has(v, word) THEN Put(v, word, Demoted(Get(v, word), t)) ELSE v

mark_as_familiar(word) ==
    /\ IF Has(vocab, word)
       THEN /\ vocab' = WordPromoted(vocab, word, now)
            /\ disk' = Saved(vocab')
       ELSE UNCHANGED <<vocab, disk>>
    /\ trip' = ObservePromote(vocab, word, now)
    /\ UNCHANGED now

mark_as_learning(word) ==
    /\ IF Has(vocab, word)
       THEN /\ vocab' = WordDemoted(vocab, word, now)
            /\ disk' = Saved(vocab')
       ELSE UNCHANGED <<vocab, disk>>
    /\ trip' = ObserveDemote(trip, word, now)
    /\ UNCHANGED now

increment_encounter(word) ==
    /\ Has(vocab, word) => Get(vocab, word).encounter_count < MaxEnc
    /\ IF Has(vocab, word)
       THEN /\ vocab' = Put(vocab, word, Reinforced(Get(vocab, word)))
            /\ disk' = Saved(vocab')
       ELSE UNCHANGED <<vocab, disk>>
    /\ trip' = Idle
    /\ UNCHANGED now

\* The loop of clean_expired_words over list(self.vocab.items()): the store
\* and the list expired_words after the items that are left.
RECURSIVE CleanLoop(_, _, _, _)
CleanLoop(items, v, expired_words, cutoff) ==
    IF items = <<>> THEN [vocab |-> v, expired_words |-> expired_words]
    ELSE IF IsExpired(Head(items), cutoff)
         THEN CleanLoop(Tail(items), Del(v, Head(items).word),
                        Append(expired_words, Head(items).word), cutoff)
         ELSE CleanLoop(Tail(items), v, expired_words, cutoff)

\* The list clean_expired_words(days) returns when called in this state.
expired_words(days) ==
    CleanLoop(vocab, vocab, <<>>, now - days).expired_words

clean_expired_words(days) ==
    LET done == CleanLoop(vocab, vocab, <<>>, now - days)
    IN  /\ UNCHANGED now
        /\ trip' = Idle
        /\ vocab' = done.vocab
        /\ disk' = IF done.expired_words # <<>> THEN Saved(vocab') ELSE disk

\* get_learning_words / get_familiar_words
get_learning_words == WithStatus(vocab, "learning")

get_familiar_words == WithStatus(vocab, "familiar")

\* The thresholds clean_expired_words is called with.
Thresholds == 0 .. DefaultDays

Next ==
    \/ Tick /\ UNCHANGED outside_store
    \/ VocabManager_init /\ UNCHANGED outside_store
    \/ save_vocab /\ UNCHANGED outside_store
    \/ \E word \in Words, text \in Texts :
          add_word(word, text) /\ UNCHANGED outside_store
    \/ \E word \in Words : mark_as_familiar(word) /\ UNCHANGED outside_store
    \/ \E word \in Words : mark_as_learning(word) /\ UNCHANGED outside_store
    \/ \E word \in Words :
          increment_encounter(word) /\ UNCHANGED outside_store
    \/ \E days \in Thresholds :
          clean_expired_words(days) /\ UNCHANGED outside_store

Spec == Init /\ [][Next]_vars

\* ------------------------------------------------------- passage selection

\* The delimiters of re.split(r'[.!?]+', text).
Terminators == {".", "!", "?"}

\* The characters str.strip() removes.
Whitespace == {" ", "\n"}

\* max_length is <<>> for None and <<n>> for the number n.
NoLimit == <<>>

\* The truth value of max_length in `if max_length and ...`: None and 0
\* are false.
Truthy(max_length) == max_length # <<>> /\ max_length[1] # 0

\* re.split(r'[.!?]+', text) from position i on, cur being the piece that
\* is open: a run of delimiters closes it, the end of the text closes the last.
RECURSIVE SplitFrom(_, _, _)
SplitFrom(text, i, cur) ==
    IF i > Len(text) THEN <<cur>>
    ELSE IF text[i] \in Terminators
         THEN IF i < Len(text) /\ text[i + 1] \in Terminators
              THEN SplitFrom(text, i + 1, cur)
              ELSE <<cur>> \o SplitFrom(text, i + 1, <<>>)
         ELSE SplitFrom(text, i + 1, Append(cur, text[i]))

Sentences(text) == SplitFrom(text, 1, <<>>)

RECURSIVE LStrip(_)
LStrip(s) ==
    IF s # <<>> /\ Head(s) \in Whitespace THEN LStrip(Tail(s)) ELSE s

RECURSIVE RStrip(_)
RStrip(s) ==
    IF s # <<>> /\ s[Len(s)] \in Whitespace
    THEN RStrip(SubSeq(s, 1, Len(s) - 1))
    ELSE s

\* str.strip()
Strip(s) == LStrip(RStrip(s))

\* The count of the distinct target tokens instead of their occurrences.
DistinctTargetCount(tokens, target_tokens) ==
    Cardinality(Range(tokens) \cap target_tokens)

\* sum(1 for token in tokens if token in target_tokens)
TargetCount(tokens, target_tokens) ==
    Len(SelectSeq(tokens, LAMBDA token : token \in target_tokens))


\* if max_length and len(current_segment) > max_length
OverLimit(max_length, current_segment) ==
    Truthy(max_length) /\ Len(current_segment) > max_length[1]

\* The update of the best segment on every count above 0 that is not smaller.
BetterOrEqual(current_target_count, max_target_count) ==
    current_target_count > 0 /\ current_target_count >= max_target_count

\* if current_target_count > max_target_count
Better(current_target_count, max_target_count) ==
    current_target_count > max_target_count

\* The inner loop of extract_readable_text from end_idx on (1-based).
RECURSIVE InnerLoop(_, _, _, _, _, _, _, _)
InnerLoop(sentences, target_tokens, max_length, end_idx, segment, current_target_count, best_segment, max_target_count) ==
    IF end_idx > Len(sentences)
    THEN [best_segment |-> best_segment, max_target_count |-> max_target_count]
    ELSE LET current_segment == segment \o sentences[end_idx] \o <<".", " ">>
             target_count ==
                 TargetCount(simple_tokenize(current_segment), target_tokens)
             count == Max(current_target_count, target_count)
         IN  IF OverLimit(max_length, current_segment)
             THEN [best_segment |-> best_segment,
                   max_target_count |-> max_target_count]
             ELSE IF Better(count, max_target_count)
                  THEN InnerLoop(sentences, target_tokens, max_length,
                                 end_idx + 1, current_segment, count,
                                 current_segment, count)
                  ELSE InnerLoop(sentences, target_tokens, max_length,
                                 end_idx + 1, current_segment, count,
                                 best_segment, max_target_count)

\* The outer loop from start_idx on (1-based).
RECURSIVE OuterLoop(_, _, _, _, _, _)
OuterLoop(sentences, target_tokens, max_length, start_idx, best_segment, max_target_count) ==
    IF start_idx > Len(sentences)
    THEN [best_segment |-> best_segment, max_target_count |-> max_target_count]
    ELSE LET inner == InnerLoop(sentences, target_tokens, max_length, start_idx,
                                <<>>, 0, best_segment, max_target_count)
         IN  OuterLoop(sentences, target_tokens, max_length, start_idx + 1,
                       inner.best_segment, inner.max_target_count)

\* The pair extract_readable_text returns.
extract_readable_text(text, target_tokens, max_length) ==
    LET done == OuterLoop(Sentences(text), target_tokens, max_length, 1, <<>>, 0)
    IN  [excerpt |-> Strip(done.best_segment),
         covered_count |-> done.max_target_count]

\* The bounds of the texts and limits extract_readable_text is called with.
MaxTextLen == 5
MaxLimit == 6

SelectAlphabet == {"a", "b", ".", " "}

SelectTexts == UNION {[1 .. n -> SelectAlphabet] : n \in 0 .. MaxTextLen}

SelectTargets == SUBSET {<<"a">>, <<"b">>}

\* max_length: None and the numbers 0 .. MaxLimit
SelectLimits == {NoLimit} \cup {<<n>> : n \in 0 .. MaxLimit}

\* A call of extract_readable_text with any of the arguments, not yet run.
SelectInit ==
    /\ vocab = <<>>
    /\ disk = [exists |-> FALSE, doc |-> <<>>]
    /\ now = 0
    /\ trip = Idle
    /\ call \in [text : SelectTexts, target_tokens : SelectTargets,
                 max_length : SelectLimits, returned : {FALSE},
                 excerpt : {<<>>}, covered_count : {0}]
    /\ session_state = NoSession
    /\ db = NoDb
    /\ cache = NoCache

\* The call runs and returns.
ExtractReturns ==
    /\ ~call.returned
    /\ LET result == extract_readable_text(call.text, call.target_tokens,
                                           call.max_length)
       IN  call' = [call EXCEPT !.returned = TRUE,
                                !.excerpt = result.excerpt,
                                !.covered_count = result.covered_count]
    /\ UNCHANGED <<vocab, disk, now, trip, session_state, db, cache>>

SelectNext == ExtractReturns

SelectSpec == SelectInit /\ [][SelectNext]_vars

\* ---------------------------------------------------------- reading database

\* The titles of the books table.
Titles(d) == {d.books[i].title : i \in DOMAIN d.books}

\* The ids of the books table; AUTOINCREMENT numbers the rows 1, 2, ... and
\* no row is ever deleted.
BookIds(d) == DOMAIN d.books

\* The row INSERT INTO books makes.
BookRow(d, title, author, t) ==
    [id |-> Len(d.books) + 1, title |-> title, author |-> author,
     added_date |-> t, reading_status |-> "reading"]


\* ReadingManager.add_book: the database afterwards, whether the call raised
\* and the id it returned. A write on a database that another connection has
\* locked raises sqlite3.OperationalError, which add_book does not catch.
\* UNIQUE lets the INSERT of a title that is in the table fail: add_book
\* returns None and leaves its connection open inside the transaction, with
\* the write lock, until the garbage collector closes it.
add_book(d, title, author, t) ==
    IF d.locked
    THEN [db |-> d, raised |-> TRUE, book_id |-> None]
    ELSE IF title \in Titles(d)
         THEN [db |-> [d EXCEPT !.locked = TRUE],
               raised |-> FALSE, book_id |-> None]
         ELSE [db |-> [d EXCEPT !.books = Append(@, BookRow(d, title, author, t))],
               raised |-> FALSE, book_id |-> <<Len(d.books) + 1>>]

\* The row INSERT INTO reading_sessions makes.
SessionRow(d, book_id, t, total_tokens, new_words, familiar_words_count) ==
    [id |-> Len(d.sessions) + 1, book_id |-> book_id, session_date |-> t,
     total_tokens |-> total_tokens, new_words |-> new_words,
     familiar_words_count |-> familiar_words_count,
     duration_minutes |-> 0, notes |-> <<>>]

\* ReadingManager.add_session on a database that is not locked.
add_session(d, book_id, t, total_tokens, new_words, familiar_words_count) ==
    [d EXCEPT !.sessions =
        Append(@, SessionRow(d, book_id, t, total_tokens, new_words,
                             familiar_words_count))]

\* An update of the status that also deletes the sessions of the book.
StatusUpdatedCascading(d, book_id, status) ==
    [d EXCEPT !.books =
                 [i \in DOMAIN d.books |->
                     IF d.books[i].id = book_id
                     THEN [d.books[i] EXCEPT !.reading_status = status]
                     ELSE d.books[i]],
              !.sessions = SelectSeq(@, LAMBDA row : row.book_id # book_id)]

\* UPDATE books SET reading_status = ? WHERE id = ?
StatusUpdated(d, book_id, status) ==
    [d EXCEPT !.books =
        [i \in DOMAIN d.books |->
            IF d.books[i].id = book_id
            THEN [d.books[i] EXCEPT !.reading_status = status]
            ELSE d.books[i]]]

\* The first options of the book selector: get_all_books orders the books
\* by added_date DESC, in no stated order among equal dates, and the option
\* "+ new book" (None) follows them.
FirstOptions(d) ==
    IF d.books = <<>> THEN {None}
    ELSE {<<i>> : i \in {j \in DOMAIN d.books :
                            \A k \in DOMAIN d.books :
                               d.books[k].added_date <= d.books[j].added_date}}

\* -------------------------------------------------------------- text cache

\* TextCacheManager.save_text
save_text(text) == [exists |-> TRUE, text |-> text]

\* ------------------------------------------------------------ text loading

\* The texts the text area holds when "process text" is pressed: "", "a A"
\* and "A. A".
T3 == <<"A", ".", " ", "A">>
AppTexts == {T0, T1, T3}

\* number_input("buffer size", min_value=10, max_value=200, value=50): the
\* texts here have at most two distinct words, so that every admissible
\* size behaves as the default does.
DefaultBuffer == 50
BufferSizes == {DefaultBuffer}

\* The keys of Counter(tokens), in the order of first occurrence.
RECURSIVE Distinct(_)
Distinct(tokens) ==
    IF tokens = <<>> THEN <<>>
    ELSE LET front == Distinct(SubSeq(tokens, 1, Len(tokens) - 1))
             last == tokens[Len(tokens)]
         IN  IF last \in {front[i] : i \in DOMAIN front}
             THEN front ELSE Append(front, last)

\* Counter(tokens)[word]
CountOf(tokens, word) == Len(SelectSeq(tokens, LAMBDA token : token = word))

\* sorted(..., reverse=True) is stable: a word goes behind the words whose
\* count is not smaller.
RECURSIVE InsertByCount(_, _, _)
InsertByCount(sorted, word, tokens) ==
    IF sorted = <<>> THEN <<word>>
    ELSE IF CountOf(tokens, Head(sorted)) >= CountOf(tokens, word)
         THEN <<Head(sorted)>> \o InsertByCount(Tail(sorted), word, tokens)
         ELSE <<word>> \o sorted

RECURSIVE SortByCount(_, _)
SortByCount(words, tokens) ==
    IF words = <<>> THEN <<>>
    ELSE InsertByCount(SortByCount(SubSeq(words, 1, Len(words) - 1), tokens),
                       words[Len(words)], tokens)

\* [word for word, count in Counter(tokens).most_common()]
MostCommon(tokens) == SortByCount(Distinct(tokens), tokens)

\* The loop without its break: every word that is in neither set.
NewWordsUnbounded(words, known, buffer_size, new_words) ==
    new_words \o SelectSeq(words, LAMBDA word : word \notin known)

\* The loop that collects new_words: the words that are in neither set, until
\* there are buffer_size of them.
RECURSIVE NewWords(_, _, _, _)
NewWords(words, known, buffer_size, new_words) ==
    IF words = <<>> THEN new_words
    ELSE IF Head(words) \notin known
         THEN IF Len(new_words) + 1 >= buffer_size
              THEN Append(new_words, Head(words))
              ELSE NewWords(Tail(words), known, buffer_size,
                            Append(new_words, Head(words)))
         ELSE NewWords(Tail(words), known, buffer_size, new_words)

\* A count of the encounters that takes the learning words as well.
EncounteredInAnyStatus(v, tokens) ==
    [i \in DOMAIN v |->
        IF v[i].word \in Range(tokens) THEN Reinforced(v[i]) ELSE v[i]]

\* for word in familiar_set: if word in token_counts:
\*     vm.increment_encounter(word)
Encountered(v, tokens) ==
    [i \in DOMAIN v |->
        IF v[i].status = "familiar" /\ v[i].word \in Range(tokens)
        THEN Reinforced(v[i]) ELSE v[i]]

\* for word in new_words: vm.add_word(word, text_input)
RECURSIVE WordsAdded(_, _, _, _)
WordsAdded(v, new_words, text, t) ==
    IF new_words = <<>> THEN v
    ELSE WordsAdded(WordAdded(v, Head(new_words), text, t),
                    Tail(new_words), text, t)

\* What the handler of "process text" computes from the store v that the
\* first clean_expired_words(days=3) left, once a book is selected.
Processed(v, text, t, buffer_size) ==
    LET cleaned == CleanLoop(v, v, <<>>, t - DefaultDays).vocab
        tokens == simple_tokenize(text)
        known == Keys(WithStatus(cleaned, "familiar"))
                    \cup Keys(WithStatus(cleaned, "learning"))
        new_words == NewWords(MostCommon(tokens), known, buffer_size, <<>>)
        stored == WordsAdded(Encountered(cleaned, tokens), new_words, text, t)
        target_tokens == Keys(WithStatus(stored, "learning"))
                            \cup Keys(WithStatus(stored, "familiar"))
        readable == extract_readable_text(text, target_tokens, NoLimit)
    IN  [vocab |-> stored, tokens |-> tokens, new_words |-> new_words,
         readable_text |-> readable.excerpt,
         target_count |-> readable.covered_count]

\* -------------------------------------------------------------- review flows

\* The orders random.shuffle can leave the list of a set of words in.
Perms(S) ==
    {p \in [1 .. Cardinality(S) -> S] :
        \A i, j \in DOMAIN p : p[i] = p[j] => i = j}

\* A sample drawn with replacement: a word may come twice.
SamplesWithRepeats(S, k) == [1 .. k -> S]

\* The lists random.sample(list(S), k) can return.
Samples(S, k) ==
    {p \in [1 .. k -> S] : \A i, j \in DOMAIN p : p[i] = p[j] => i = j}

\* st.slider("test ratio (%)", 10, 100, 30)
MinRatio == 10
MaxRatio == 100
Ratios == {MinRatio, 70, MaxRatio}

\* The sample size with the quotient rounded up.
RoundedUpTestCount(n, test_ratio) == Max(1, (n * test_ratio + 99) \div 100)

\* test_count = max(1, int(len(familiar_words) * test_ratio / 100))
TestCount(n, test_ratio) == Max(1, (n * test_ratio) \div 100)

\* A restart that keeps the words of the finished round.
RestartedSame(review, v) == {[review EXCEPT !.index = 0]}

\* review_index = 0 and review_words = the shuffled keys of learning_words
Shuffled(v) ==
    {[set |-> TRUE, index |-> 0, words |-> p] :
        p \in Perms(Keys(WithStatus(v, "learning")))}

\* "restart the review" after the round `review`
Restarted(review, v) == Shuffled(v)

\* An answer that leaves the index where it is.
Stayed(flow) == flow

\* st.session_state.review_index += 1, st.session_state.test_index += 1
Advanced(flow) == [flow EXCEPT !.index = @ + 1]

\* The word a flow shows: words[index] of a list that starts at 0.
CurrentWord(flow) == flow.words[flow.index + 1]

\* Tab 4 of a script run that got there, on the store v: the first one with
\* learning words sets review_index and review_words.
Rendered(ss, v) ==
    IF WithStatus(v, "learning") # <<>> /\ ~ss.review.set
    THEN {[ss EXCEPT !.review = r] : r \in Shuffled(v)}
    ELSE {ss}

\* A script run that reached its end, or st.rerun(), and the page it renders.
Completed(ss, v) == Rendered([ss EXCEPT !.aborted = "no"], v)

\* learning_words[current_word] in tab 4 raises KeyError: the run stops
\* there and the tabs behind tab 4 are not drawn.
TabFourRaises(ss, v) ==
    /\ WithStatus(v, "learning") # <<>>
    /\ ss.review.set
    /\ ss.review.index < Len(ss.review.words)
    /\ CurrentWord(ss.review) \notin Keys(WithStatus(v, "learning"))

\* The two answer buttons of tab 4 are drawn.
FlashcardShown ==
    /\ session_state.aborted = "no"
    /\ WithStatus(vocab, "learning") # <<>>
    /\ session_state.review.set
    /\ session_state.review.index < Len(session_state.review.words)
    /\ ~TabFourRaises(session_state, vocab)

\* The restart button of tab 4 is drawn.
RoundDone ==
    /\ session_state.aborted = "no"
    /\ WithStatus(vocab, "learning") # <<>>
    /\ session_state.review.set
    /\ session_state.review.index >= Len(session_state.review.words)

\* The start button of tab 5 is drawn.
SpotCheckOffered ==
    /\ session_state.aborted = "no"
    /\ ~TabFourRaises(session_state, vocab)
    /\ WithStatus(vocab, "familiar") # <<>>

\* The two answer buttons of tab 5 are drawn.
SpotCheckShown ==
    /\ SpotCheckOffered
    /\ session_state.test.set
    /\ session_state.test.words # <<>>
    /\ session_state.test.index < Len(session_state.test.words)
    /\ CurrentWord(session_state.test) \in Keys(WithStatus(vocab, "familiar"))

\* The button that ends a finished spot check is drawn.
SpotCheckDone ==
    /\ SpotCheckOffered
    /\ session_state.test.set
    /\ session_state.test.words # <<>>
    /\ session_state.test.index >= Len(session_state.test.words)

\* ---------------------------------------------------------------- the app

\* The bound of the rows of reading_sessions.
MaxSessions == 1

\* What the form is submitted with: titles "x", " x" and " ", author "h ".
NewTitles == {<<"x">>, <<" ", "x">>, <<" ">>}
NewAuthors == {<<"h", " ">>}

\* The status values update_book_status is called with.
Statuses == {"reading", "finished"}

\* The document an earlier session saved: "a" is learning since 4 days and
\* "A" is familiar.
AppDoc ==
    << [word |-> W1, added_date |-> -4, last_review |-> -4,
        status |-> "learning", encounter_count |-> 0,
        concordance |-> get_concordance(W1, T1)],
       [word |-> W2, added_date |-> -4, last_review |-> -3,
        status |-> "familiar", encounter_count |-> 0,
        concordance |-> get_concordance(W2, T1)] >>

\* The first page of a session on a database without books.
AppInit ==
    /\ disk \in {[exists |-> FALSE, doc |-> <<>>], Saved(AppDoc)}
    /\ vocab = load_vocab(disk)
    /\ now = 0
    /\ trip = Idle
    /\ call = NoCall
    /\ db = NoDb
    /\ cache = NoCache
    /\ session_state \in Completed(NoSession, vocab)

\* A new browser session: a new VocabManager, a new session state.
new_session ==
    /\ VocabManager_init
    /\ \E first \in FirstOptions(db) :
          session_state' \in
              Completed([NoSession EXCEPT !.book_selector = first], vocab')
    /\ UNCHANGED <<call, db, cache>>

\* The garbage collector closes the connection a failed add_book left open.
collect_garbage ==
    /\ db.locked
    /\ db' = [db EXCEPT !.locked = FALSE]
    /\ UNCHANGED <<vocab, disk, now, trip, call, session_state, cache>>

\* The sidebar button "clean expired words (> 3 days)".
sidebar_clean ==
    /\ clean_expired_words(DefaultDays)
    /\ session_state' \in Completed(session_state, vocab')
    /\ UNCHANGED <<call, db, cache>>

\* The selectbox "book_selector": an option is chosen and the script runs.
select_book(selected_book) ==
    /\ session_state' \in
          Completed([session_state EXCEPT !.book_selector = selected_book],
                    vocab)
    /\ UNCHANGED <<vocab, disk, now, trip, call, db, cache>>

\* The form "add_book_form" is submitted. After a success st.rerun() draws
\* the selectbox with one more option: it keeps its value or falls back to
\* its first option, as the Streamlit version has it.
add_book_form(new_title, new_author) ==
    /\ UNCHANGED <<vocab, disk, now, trip, call, cache>>
    /\ IF Strip(new_title) = <<>>
       THEN /\ UNCHANGED db
            /\ session_state' \in Completed(session_state, vocab)
       ELSE LET added == add_book(db, Strip(new_title), Strip(new_author), now)
            IN  /\ db' = added.db
                /\ IF added.raised
                   THEN session_state' =
                           [session_state EXCEPT !.aborted = "add_book_form"]
                   ELSE IF added.book_id # None
                        THEN \E selected \in {session_state.book_selector}
                                                \cup FirstOptions(db') :
                                session_state' \in
                                    Completed([session_state EXCEPT
                                                  !.book_selector = selected],
                                              vocab)
                        ELSE session_state' \in Completed(session_state, vocab)

\* The button "clear_cache" of tab 1.
clear_cache ==
    /\ session_state.aborted # "add_book_form"
    /\ cache.exists
    /\ cache' = NoCache
    /\ session_state' \in Completed(session_state, vocab)
    /\ UNCHANGED <<vocab, disk, now, trip, call, db>>

\* The button "process text" of tab 1 with the text area holding text_input.
\* The cache is written and the expired words are removed before the handler
\* looks at the selected book. With a book, add_session comes last and
\* raises on a locked database, after save_vocab.
process_text(text_input, buffer_size) ==
    /\ session_state.aborted # "add_book_form"
    /\ UNCHANGED <<now, call>>
    /\ IF text_input = <<>>
       THEN /\ UNCHANGED <<vocab, disk, trip, db, cache>>
            /\ session_state' \in Completed(session_state, vocab)
       ELSE LET first == CleanLoop(vocab, vocab, <<>>, now - DefaultDays)
                done == Processed(first.vocab, text_input, now, buffer_size)
            IN  /\ cache' = save_text(text_input)
                /\ trip' = Idle
                /\ IF session_state.book_selector = None
                   THEN /\ vocab' = first.vocab
                        /\ disk' = IF first.expired_words # <<>>
                                   THEN Saved(vocab') ELSE disk
                        /\ UNCHANGED db
                        /\ session_state' \in Completed(session_state, vocab')
                   ELSE /\ \A i \in DOMAIN done.vocab :
                              done.vocab[i].encounter_count <= MaxEnc
                        /\ vocab' = done.vocab
                        /\ disk' = Saved(vocab')
                        /\ IF db.locked
                           THEN /\ UNCHANGED db
                                /\ session_state' =
                                      [session_state EXCEPT
                                          !.aborted = "process_text"]
                           ELSE /\ Len(db.sessions) < MaxSessions
                                /\ db' = add_session(
                                            db, session_state.book_selector[1],
                                            now, Len(done.tokens),
                                            Len(done.new_words),
                                            done.target_count)
                                /\ session_state' \in
                                      Completed(session_state, vocab')

\* Tab 4, the button "known -> familiar".
flashcard_known ==
    /\ FlashcardShown
    /\ vocab' = WordPromoted(vocab, CurrentWord(session_state.review), now)
    /\ disk' = Saved(vocab')
    /\ trip' = Idle
    /\ session_state' \in
          Completed([session_state EXCEPT !.review = Advanced(@)], vocab')
    /\ UNCHANGED <<now, call, db, cache>>

\* Tab 4, the button "unknown -> skip".
flashcard_unknown ==
    /\ FlashcardShown
    /\ session_state' \in
          Completed([session_state EXCEPT !.review = Advanced(@)], vocab)
    /\ UNCHANGED <<vocab, disk, now, trip, call, db, cache>>

\* Tab 4, the button "restart the review" of a finished round.
flashcard_restart ==
    /\ RoundDone
    /\ \E r \in Restarted(session_state.review, vocab) :
          session_state' \in
              Completed([session_state EXCEPT !.review = r], vocab)
    /\ UNCHANGED <<vocab, disk, now, trip, call, db, cache>>

\* Tab 5, the button "start random spot check" with the slider at test_ratio.
spot_check_start(test_ratio) ==
    /\ SpotCheckOffered
    /\ LET familiar_words == Keys(WithStatus(vocab, "familiar"))
           test_count == TestCount(Cardinality(familiar_words), test_ratio)
       IN  \E test_words \in Samples(familiar_words, test_count) :
              session_state' \in
                  Completed([session_state EXCEPT
                                !.test = [set |-> TRUE, index |-> 0,
                                          words |-> test_words]],
                            vocab)
    /\ UNCHANGED <<vocab, disk, now, trip, call, db, cache>>

\* Tab 5, the button "known".
spot_check_known ==
    /\ SpotCheckShown
    /\ session_state' \in
          Completed([session_state EXCEPT !.test = Advanced(@)], vocab)
    /\ UNCHANGED <<vocab, disk, now, trip, call, db, cache>>

\* Tab 5, the button "unknown -> back to learning".
spot_check_unknown ==
    /\ SpotCheckShown
    /\ vocab' = WordDemoted(vocab, CurrentWord(session_state.test), now)
    /\ disk' = Saved(vocab')
    /\ trip' = Idle
    /\ session_state' \in
          Completed([session_state EXCEPT !.test = Advanced(@)], vocab')
    /\ UNCHANGED <<now, call, db, cache>>

\* Tab 5, the button of a finished spot check: del st.session_state.test_words.
\* test_index stays in the session state, where nothing reads it before the
\* next start sets it to 0; it is left out of the state here.
spot_check_again ==
    /\ SpotCheckDone
    /\ session_state' \in Completed([session_state EXCEPT !.test = Unset], vocab)
    /\ UNCHANGED <<vocab, disk, now, trip, call, db, cache>>

\* ReadingManager.update_book_status, which no page calls; it raises on a
\* locked database.
update_book_status(book_id, status) ==
    /\ db' = IF db.locked THEN db ELSE StatusUpdated(db, book_id, status)
    /\ UNCHANGED <<vocab, disk, now, trip, call, session_state, cache>>

\* The options of the selectbox and the ids update_book_status is called with.
Options == {None} \cup {<<i>> : i \in BookIds(db)}

AnyBookIds == {1, 2}

\* Text loading and the books: the handlers of the sidebar and of tab 1,
\* and update_book_status.  Of the session state only the book selector and
\* the two review flows are kept: current_text, readable_text, new_tokens,
\* text_input_value and show_add_book_form feed the display only.  The
\* button that restores the cached text into the text area, a write of the
\* cache that fails, and two books whose selector labels coincide are left
\* out.
AppNext ==
    \/ Tick /\ UNCHANGED outside_store
    \/ new_session
    \/ collect_garbage
    \/ sidebar_clean
    \/ \E selected_book \in Options : select_book(selected_book)
    \/ \E new_title \in NewTitles, new_author \in NewAuthors :
          add_book_form(new_title, new_author)
    \/ clear_cache
    \/ \E text_input \in AppTexts, buffer_size \in BufferSizes :
          process_text(text_input, buffer_size)
    \/ \E book_id \in AnyBookIds, status \in Statuses :
          update_book_status(book_id, status)

AppSpec == AppInit /\ [][AppNext]_vars

\* The database of a session in which the book "x" was added and selected.
OneBook == [NoDb EXCEPT !.books = <<BookRow(NoDb, <<"x">>, <<>>, -4)>>]

\* The first page of a session with that book.
ReviewInit ==
    /\ disk \in {[exists |-> FALSE, doc |-> <<>>], Saved(AppDoc)}
    /\ vocab = load_vocab(disk)
    /\ now = 0
    /\ trip = Idle
    /\ call = NoCall
    /\ db = OneBook
    /\ cache = NoCache
    /\ session_state \in
          Completed([NoSession EXCEPT !.book_selector = <<1>>], vocab)

\* The text that is processed between the answers: "a A".
ReviewTexts == {T1}

\* The review flows: the handlers of tab 4 and tab 5 and what runs between
\* their answers, in a session that is shorter than a day.
ReviewNext ==
    \/ new_session
    \/ sidebar_clean
    \/ \E text_input \in ReviewTexts, buffer_size \in BufferSizes :
          process_text(text_input, buffer_size)
    \/ flashcard_known
    \/ flashcard_unknown
    \/ flashcard_restart
    \/ \E test_ratio \in Ratios : spot_check_start(test_ratio)
    \/ spot_check_known
    \/ spot_check_unknown
    \/ spot_check_again

ReviewSpec == ReviewInit /\ [][ReviewNext]_vars

\* ------------------------------------------------- text loading on a book

\* min_value=10 of the number_input of the buffer size.
MinBuffer == 10
LoadBufferSizes == {MinBuffer, DefaultBuffer}

\* A text of twelve different words: with "A" familiar, one more unknown
\* word than the smallest buffer holds.
T4 == JoinSpace(<< <<"a">>, <<"A">>, <<"b">>, <<"a", "a">>, <<"a", "b">>,
                   <<"a", "A">>, <<"b", "a">>, <<"b", "b">>, <<"b", "A">>,
                   <<"A", "a">>, <<"A", "b">>, <<"A", "A">> >>)
LoadTexts == {T0, T1, T3, T4}

\* Documents an earlier session saved.  In the first "a" was added
\* yesterday.  In the second "a" had been promoted and met once in a text,
\* then a spot check demoted it four days ago and nothing reviewed it since.
FreshDoc ==
    << [word |-> W1, added_date |-> -1, last_review |-> -1,
        status |-> "learning", encounter_count |-> 0,
        concordance |-> get_concordance(W1, T1)],
       [word |-> W2, added_date |-> -4, last_review |-> -3,
        status |-> "familiar", encounter_count |-> 0,
        concordance |-> get_concordance(W2, T1)] >>

DemotedDoc ==
    << [word |-> W1, added_date |-> -4, last_review |-> -4,
        status |-> "learning", encounter_count |-> 1,
        concordance |-> get_concordance(W1, T1)],
       [word |-> W2, added_date |-> -4, last_review |-> -3,
        status |-> "familiar", encounter_count |-> 0,
        concordance |-> get_concordance(W2, T1)] >>

LoadDocs == {AppDoc, FreshDoc, DemotedDoc}

\* The first page of a session in which book 1 is selected: tab 4 has set
\* the review list to the one learning word of the document.
LoadInit ==
    /\ \E doc \in LoadDocs : disk = Saved(doc)
    /\ vocab = load_vocab(disk)
    /\ now = 0
    /\ trip = Idle
    /\ call = NoCall
    /\ session_state \in
          Completed([NoSession EXCEPT !.book_selector = <<1>>], vocab)
    /\ db = OneBook
    /\ cache = NoCache

\* Texts processed on the selected book in one session, while days pass.
LoadNext ==
    \/ Tick /\ UNCHANGED outside_store
    \/ sidebar_clean
    \/ \E selected_book \in Options : select_book(selected_book)
    \/ clear_cache
    \/ \E text_input \in LoadTexts, buffer_size \in LoadBufferSizes :
          process_text(text_input, buffer_size)

LoadSpec == LoadInit /\ [][LoadNext]_vars

\* ------------------------------------------------------ translation import

\* s.split('\n'): the pieces between the line feeds, at least one.
RECURSIVE SplitLines(_, _)
SplitLines(s, piece) ==
    IF s = <<>> THEN <<piece>>
    ELSE IF Head(s) = "\n" THEN <<piece>> \o SplitLines(Tail(s), <<>>)
    ELSE SplitLines(Tail(s), Append(piece, Head(s)))

\* line.split(',', 1) of a line that holds a comma: what is before the
\* first comma and what is after it.
RECURSIVE SplitOnce(_, _)
SplitOnce(line, before) ==
    IF Head(line) = "," THEN <<before, Tail(line)>>
    ELSE SplitOnce(Tail(line), Append(before, Head(line)))

\* An import that looks the word up as it stands between the separators.
UntrimmedWord(part) == part

\* word = parts[0].strip()
WordOf(part) == Strip(part)

\* vm.vocab[word]["translation"] = translation
Translated(v, word, translation) ==
    Put(v, word,
        [k \in DOMAIN Get(v, word) \cup {"translation"} |->
            IF k = "translation" THEN translation ELSE Get(v, word)[k]])

\* The loop over the lines of the import: the store and the two counters
\* after the lines that are left.
RECURSIVE ImportLoop(_, _, _, _)
ImportLoop(lines, v, imported_count, skipped_count) ==
    IF lines = <<>>
    THEN [vocab |-> v, imported_count |-> imported_count,
          skipped_count |-> skipped_count]
    ELSE LET line == Strip(Head(lines))
         IN  IF line = <<>> \/ "," \notin Range(line)
             THEN ImportLoop(Tail(lines), v, imported_count, skipped_count)
             ELSE LET parts == SplitOnce(line, <<>>)
                      word == WordOf(parts[1])
                      translation == Strip(parts[2])
                  IN  IF Has(v, word)
                      THEN ImportLoop(Tail(lines),
                                      Translated(v, word, translation),
                                      imported_count + 1, skipped_count)
                      ELSE ImportLoop(Tail(lines), v,
                                      imported_count, skipped_count + 1)

\* The bound of the length of the pasted text, and its characters.
MaxCsvLen == 5
CsvAlphabet == {"a", "A", ",", " ", "\n"}
CsvInputs == UNION {[1 .. n -> CsvAlphabet] : n \in 0 .. MaxCsvLen}

\* The stores tab 3 offers the import on: they hold a learning word.
ImportDocs == {<<AppDoc[1]>>, SavedDoc}

\* No import was run.
NoImport == [csv_input |-> <<>>, returned |-> FALSE,
             imported_count |-> 0, skipped_count |-> 0]

\* Tab 3 with any pasted text, the button not yet pressed.
ImportInit ==
    /\ \E doc \in ImportDocs : disk = Saved(doc)
    /\ vocab = load_vocab(disk)
    /\ now = 0
    /\ trip = Idle
    /\ \E csv_input \in CsvInputs : call = [NoImport EXCEPT !.csv_input = csv_input]
    /\ session_state = NoSession
    /\ db = NoDb
    /\ cache = NoCache

\* The button "import translations" of tab 3.
import_translations ==
    /\ ~call.returned
    /\ WithStatus(vocab, "learning") # <<>>
    /\ IF Strip(call.csv_input) = <<>>
       THEN /\ call' = [call EXCEPT !.returned = TRUE]
            /\ UNCHANGED <<vocab, disk>>
       ELSE LET done == ImportLoop(SplitLines(Strip(call.csv_input), <<>>),
                                   vocab, 0, 0)
            IN  /\ vocab' = done.vocab
                /\ disk' = Saved(vocab')
                /\ call' = [call EXCEPT !.returned = TRUE,
                                        !.imported_count = done.imported_count,
                                        !.skipped_count = done.skipped_count]
    /\ UNCHANGED <<now, trip, session_state, db, cache>>

ImportNext == import_translations

ImportSpec == ImportInit /\ [][ImportNext]_vars

\* ---------------------------------------------------------------- tokenizer

\* The bound of the length of the texts the tokenizer is called with, and
\* their characters: two letters of the class, a digit, a blank, a comma.
MaxTokenTextLen == 4
TokenAlphabet == {"a", "A", "1", " ", ","}
TokenTexts == UNION {[1 .. n -> TokenAlphabet] : n \in 0 .. MaxTokenTextLen}

\* A call of simple_tokenize with any of the texts, not yet run.
TokenizeInit ==
    /\ vocab = <<>>
    /\ disk = [exists |-> FALSE, doc |-> <<>>]
    /\ now = 0
    /\ trip = Idle
    /\ \E text \in TokenTexts :
          call = [text |-> text, returned |-> FALSE, tokens |-> <<>>]
    /\ session_state = NoSession
    /\ db = NoDb
    /\ cache = NoCache

\* The call runs and returns.
TokenizeReturns ==
    /\ ~call.returned
    /\ call' = [call EXCEPT !.returned = TRUE,
                            !.tokens = simple_tokenize(call.text)]
    /\ UNCHANGED <<vocab, disk, now, trip, session_state, db, cache>>

TokenizeNext == TokenizeReturns

TokenizeSpec == TokenizeInit /\ [][TokenizeNext]_vars

\* ---------------------------------------------------------- failing writes

\* How a call of save_vocab ends: it returns, open(self.vocab_file, 'w')
\* raises, or open has emptied the file and json.dump raises part way.
SaveOutcomes == {"returns", "open raises", "dump raises"}

\* vocab.json after a write that stopped part way: no JSON document.
Truncated == [exists |-> TRUE, doc |-> <<>>, partial |-> TRUE]

\* vocab.json, which was d, after save_vocab ended as outcome on the store v.
Written(d, v, outcome) ==
    CASE outcome = "returns" -> Saved(v)
      [] outcome = "open raises" -> d
      [] OTHER -> Truncated

\* No method has raised.
NoRaise == [raised |-> FALSE]

\* What the caller sees of a save_vocab that ended as outcome.
Raise(outcome) == [raised |-> outcome # "returns"]

\* A session that starts on the saved document. json.load raises on a
\* truncated file, which load_vocab does not catch: no session starts.
FailInit ==
    /\ disk = Saved(SavedDoc)
    /\ vocab = load_vocab(disk)
    /\ now = 0
    /\ trip = Idle
    /\ call = NoRaise
    /\ session_state = NoSession
    /\ db = NoDb
    /\ cache = NoCache

\* mark_as_familiar(word), its save_vocab ending as outcome.
mark_as_familiar_io(word, outcome) ==
    /\ UNCHANGED <<now, trip>>
    /\ IF Has(vocab, word)
       THEN /\ vocab' = WordPromoted(vocab, word, now)
            /\ disk' = Written(disk, vocab', outcome)
            /\ call' = Raise(outcome)
       ELSE UNCHANGED <<vocab, disk>> /\ call' = NoRaise

\* mark_as_learning(word), its save_vocab ending as outcome.
mark_as_learning_io(word, outcome) ==
    /\ UNCHANGED <<now, trip>>
    /\ IF Has(vocab, word)
       THEN /\ vocab' = WordDemoted(vocab, word, now)
            /\ disk' = Written(disk, vocab', outcome)
            /\ call' = Raise(outcome)
       ELSE UNCHANGED <<vocab, disk>> /\ call' = NoRaise

\* increment_encounter(word), its save_vocab ending as outcome.
increment_encounter_io(word, outcome) ==
    /\ UNCHANGED <<now, trip>>
    /\ Has(vocab, word) => Get(vocab, word).encounter_count < MaxEnc
    /\ IF Has(vocab, word)
       THEN /\ vocab' = Put(vocab, word, Reinforced(Get(vocab, word)))
            /\ disk' = Written(disk, vocab', outcome)
            /\ call' = Raise(outcome)
       ELSE UNCHANGED <<vocab, disk>> /\ call' = NoRaise

\* clean_expired_words(days), its save_vocab ending as outcome.
clean_expired_words_io(days, outcome) ==
    LET done == CleanLoop(vocab, vocab, <<>>, now - days)
    IN  /\ UNCHANGED <<now, trip>>
        /\ vocab' = done.vocab
        /\ IF done.expired_words # <<>>
           THEN disk' = Written(disk, vocab', outcome) /\ call' = Raise(outcome)
           ELSE UNCHANGED disk /\ call' = NoRaise

\* The session goes on after a method raised: Streamlit shows the exception
\* and keeps st.session_state.vocab_manager for the next run.
FailNext ==
    \/ Tick /\ UNCHANGED outside_store
    \/ \E word \in Words, outcome \in SaveOutcomes :
          mark_as_familiar_io(word, outcome)
             /\ UNCHANGED <<session_state, db, cache>>
    \/ \E word \in Words, outcome \in SaveOutcomes :
          mark_as_learning_io(word, outcome)
             /\ UNCHANGED <<session_state, db, cache>>
    \/ \E word \in Words, outcome \in SaveOutcomes :
          increment_encounter_io(word, outcome)
             /\ UNCHANGED <<session_state, db, cache>>
    \/ \E days \in Thresholds, outcome \in SaveOutcomes :
          clean_expired_words_io(days, outcome)
             /\ UNCHANGED <<session_state, db, cache>>

FailSpec == FailInit /\ [][FailNext]_vars

\* ------------------------------------------------------------ properties

IsLearning(v, w) == Has(v, w) /\ Get(v, w).status = "learning"

IsFamiliar(v, w) == Has(v, w) /\ Get(v, w).status = "familiar"

\* The translation of an entry, as a list of at most one element.
TranslationOf(e) ==
    IF "translation" \in DOMAIN e THEN <<e.translation>> ELSE <<>>

\* The learning words whose added_date is strictly earlier than now - days.
ExpiredSet(days) ==
    {w \in Keys(vocab) :
        Get(vocab, w).status = "learning" /\ Get(vocab, w).added_date < now - days}

\* C1: clean_expired_words(days) deletes exactly the learning entries whose
\* added_date is strictly earlier than now - days, returns exactly those
\* words (each once), and leaves every other entry, familiar or learning,
\* as it was; which entries go is a function of status and added_date alone.
Thm_C1 ==
    [][\A days \in Thresholds :
          clean_expired_words(days) =>
              LET gone     == ExpiredSet(days)
                  returned == expired_words(days)
              IN  /\ Keys(vocab') = Keys(vocab) \ gone
                  /\ \A w \in Keys(vocab') : Get(vocab', w) = Get(vocab, w)
                  /\ Range(returned) = gone
                  /\ Len(returned) = Cardinality(gone)]_vars

\* A cleanup has removed the learning word of the saved document, the removal
\* is persisted, and the familiar word of that document, older than the
\* default threshold, is still in the store.
Wit_C1 ==
    /\ ~Has(vocab, W1)
    /\ disk.exists /\ ~Has(disk.doc, W1)
    /\ IsFamiliar(vocab, W2)
    /\ Get(vocab, W2).added_date < now - DefaultDays

\* C2: whenever a word enters Learning (it was absent or familiar before the
\* step and is learning after it) its added_date is the time of the call;
\* while it stays in Learning its added_date never moves back; and
\* clean_expired_words(3) called less than 3 days after added_date leaves it
\* in the store.
Thm_C2 ==
    [][\A w \in Words :
          /\ (IsLearning(vocab', w) /\ ~IsLearning(vocab, w))
                => Get(vocab', w).added_date = now
          /\ (IsLearning(vocab', w) /\ IsLearning(vocab, w))
                => Get(vocab', w).added_date >= Get(vocab, w).added_date
          /\ (clean_expired_words(DefaultDays) /\ IsLearning(vocab, w)
                 /\ now - Get(vocab, w).added_date < DefaultDays)
                => IsLearning(vocab', w)]_vars

\* The familiar word of the saved document (its last_review is still the one
\* of the document) entered Learning in this session, the clock has advanced
\* since, a cleanup has removed the other word of the document, and the word
\* is still in the store.
Wit_C2 ==
    /\ IsLearning(vocab, W2)
    /\ Get(vocab, W2).last_review < 0
    /\ Get(vocab, W2).added_date >= 0
    /\ Get(vocab, W2).added_date < now
    /\ ~Has(vocab, W1)
    /\ disk.exists /\ ~Has(disk.doc, W1)

\* C3: add_word on a familiar word makes it learning, sets added_date and
\* last_review to the time of the call and keeps encounter_count, translation
\* and a non-empty concordance.
Claim_C3 ==
    [][\A w \in Words, text \in Texts :
          (add_word(w, text) /\ IsFamiliar(vocab, w)) =>
              /\ Get(vocab', w).status = "learning"
              /\ Get(vocab', w).added_date = now
              /\ Get(vocab', w).last_review = now
              /\ Get(vocab', w).encounter_count = Get(vocab, w).encounter_count
              /\ TranslationOf(Get(vocab', w)) = TranslationOf(Get(vocab, w))
              /\ Get(vocab, w).concordance # <<>>
                    => Get(vocab', w).concordance = Get(vocab, w).concordance]_vars

\* C4: after add_word(w, text) the word is learning with
\* added_date = last_review, and with encounter_count 0 when it was absent.
Claim_C4 ==
    [][\A w \in Words, text \in Texts :
          add_word(w, text) =>
              /\ IsLearning(vocab', w)
              /\ Get(vocab', w).added_date = Get(vocab', w).last_review
              /\ ~Has(vocab, w) => Get(vocab', w).encounter_count = 0]_vars

\* C5: mark_as_familiar makes a learning word familiar with last_review the
\* time of the call, and leaves the store unchanged when the word is absent
\* or already familiar.
Claim_C5 ==
    [][\A w \in Words :
          mark_as_familiar(w) =>
              IF IsLearning(vocab, w)
              THEN /\ IsFamiliar(vocab', w)
                   /\ Get(vocab', w).last_review = now
              ELSE vocab' = vocab]_vars

\* C6: mark_as_learning leaves the store unchanged when the word is absent
\* or already learning.
Claim_C6 ==
    [][\A w \in Words :
          (mark_as_learning(w) /\ ~IsFamiliar(vocab, w)) => vocab' = vocab]_vars

\* C7: when mark_as_familiar on a learning word has been followed, at a later
\* tick, by mark_as_learning on the same word, the word is learning, its
\* added_date is the time of the mark_as_learning call and strictly greater
\* than its added_date before the two calls, and its encounter_count is the
\* one before the two calls.
Thm_C7 ==
    (trip.stage = "demoted" /\ trip.demoted_at > trip.promoted_at) =>
        /\ IsLearning(vocab, trip.word)
        /\ Get(vocab, trip.word).added_date = trip.demoted_at
        /\ Get(vocab, trip.word).added_date > trip.added_date
        /\ Get(vocab, trip.word).encounter_count = trip.encounter_count

\* A promote then a later demote of a word that had been met before.
Wit_C7 ==
    /\ trip.stage = "demoted"
    /\ trip.demoted_at > trip.promoted_at
    /\ trip.encounter_count > 0

\* C8: increment_encounter adds 1 to encounter_count of a familiar word and
\* changes nothing else of it; it is a no-op on an absent or learning word.
Claim_C8 ==
    [][\A w \in Words :
          increment_encounter(w) =>
              IF IsFamiliar(vocab, w)
              THEN Get(vocab', w) =
                       [Get(vocab, w) EXCEPT
                           !.encounter_count = Get(vocab, w).encounter_count + 1]
              ELSE vocab' = vocab]_vars

\* A step of one of the mutating operations of the store.
MutatingCall ==
    \/ \E w \in Words, text \in Texts : add_word(w, text)
    \/ \E w \in Words : mark_as_familiar(w)
    \/ \E w \in Words : mark_as_learning(w)
    \/ \E w \in Words : increment_encounter(w)
    \/ \E days \in Thresholds : clean_expired_words(days)

\* C9: after each mutating operation the persisted document is the in-memory
\* store: a new session that loads it gets the store back.
Claim_C9 ==
    [][MutatingCall => load_vocab(disk') = vocab']_vars

\* C10: every entry has status learning or familiar, no key occurs twice,
\* get_learning_words and get_familiar_words are disjoint, together they hold
\* every key of the store, and each holds the in-memory entries.
Thm_C10 ==
    /\ \A i \in DOMAIN vocab : vocab[i].status \in {"learning", "familiar"}
    /\ Cardinality(Keys(vocab)) = Len(vocab)
    /\ Keys(get_learning_words) \cap Keys(get_familiar_words) = {}
    /\ Keys(get_learning_words) \cup Keys(get_familiar_words) = Keys(vocab)
    /\ \A w \in Keys(get_learning_words) :
          Get(get_learning_words, w) = Get(vocab, w)
    /\ \A w \in Keys(get_familiar_words) :
          Get(get_familiar_words, w) = Get(vocab, w)

\* The store holds a learning and a familiar word and differs from the
\* persisted document.
Wit_C10 ==
    /\ get_learning_words # <<>>
    /\ get_familiar_words # <<>>
    /\ vocab # load_vocab(disk)

\* A call of a VocabManager method on the store that is in memory.
StoreCall == MutatingCall \/ save_vocab

\* C11: every concordance in the store has at most three elements, and over
\* each store operation an entry that stays in the store keeps a concordance
\* that is not empty; a concordance changes only in add_word on that word,
\* and then from empty to get_concordance of the text.
Thm_C11 ==
    /\ [](\A i \in DOMAIN vocab : Len(vocab[i].concordance) <= MaxConcordance)
    /\ [][\/ \A w \in Keys(vocab) \cap Keys(vocab') :
                LET old == Get(vocab, w).concordance
                    new == Get(vocab', w).concordance
                IN  /\ old # <<>> => new = old
                    /\ new # old =>
                          \E text \in Texts \ {T0} :
                             /\ add_word(w, text)
                             /\ new = get_concordance(w, text)
          \/ ~StoreCall]_vars

\* The entry of "a" got its three contexts from "a1 a a a a b b a" and the
\* word was promoted afterwards: the concordance outlived the status change.
Wit_C11 ==
    /\ Has(vocab, W1)
    /\ Get(vocab, W1).concordance = get_concordance(W1, T2)
    /\ Len(Get(vocab, W1).concordance) = MaxConcordance
    /\ Get(vocab, W1).status = "familiar"

\* The four operations on one word.
WordCall(w) ==
    \/ \E text \in Texts : add_word(w, text)
    \/ mark_as_familiar(w)
    \/ mark_as_learning(w)
    \/ increment_encounter(w)

\* C12: add_word, mark_as_familiar, mark_as_learning and increment_encounter
\* on a word w leave every other entry of the store, case variants of w
\* included, present and unchanged, and add no key other than w.
Thm_C12 ==
    [][\A w \in Words :
          \/ /\ Keys(vocab) \ {w} \subseteq Keys(vocab')
             /\ Keys(vocab') \subseteq Keys(vocab) \cup {w}
             /\ \A u \in Keys(vocab) \ {w} : Get(vocab', u) = Get(vocab, u)
          \/ ~WordCall(w)]_vars

\* "a" was promoted in this session while its case variant "A" is the entry
\* the saved document had.
Wit_C12 ==
    /\ IsFamiliar(vocab, W1)
    /\ Get(vocab, W1).last_review = MaxTime
    /\ Has(vocab, W2)
    /\ Get(vocab, W2) = SavedDoc[2]

\* The segment ranges [start..end] of a text, 1-based.
Ranges(sentences) ==
    {r \in (DOMAIN sentences) \X (DOMAIN sentences) : r[1] <= r[2]}

\* The segments start..end, each followed by ". ".
RECURSIVE RangeText(_, _, _)
RangeText(sentences, start, end) ==
    IF start > end THEN <<>>
    ELSE sentences[start] \o <<".", " ">>
            \o RangeText(sentences, start + 1, end)

\* The tokens of the segments start..end that are in the targets, counted
\* segment by segment.
RECURSIVE RangeCount(_, _, _, _)
RangeCount(sentences, start, end, targets) ==
    IF start > end THEN 0
    ELSE TargetCount(simple_tokenize(sentences[start]), targets)
            + RangeCount(sentences, start + 1, end, targets)

\* Iteration order: start ascending, then end ascending.
Earlier(r, q) == r[1] < q[1] \/ (r[1] = q[1] /\ r[2] < q[2])

\* The largest count over a set of ranges, 0 over no range.
BestCount(sentences, ranges, targets) ==
    IF ranges = {} THEN 0
    ELSE LET counts == {RangeCount(sentences, r[1], r[2], targets) : r \in ranges}
         IN  CHOOSE n \in counts : \A k \in counts : k <= n

\* What the search over a set of ranges is to return: the largest count and
\* the first range that reaches it, nothing when the count is 0.
Selected(sentences, ranges, targets) ==
    LET best == BestCount(sentences, ranges, targets)
        reach == {r \in ranges :
                     RangeCount(sentences, r[1], r[2], targets) = best}
        first == CHOOSE r \in reach : \A q \in reach \ {r} : Earlier(r, q)
    IN  [excerpt |-> IF best = 0 THEN <<>>
                     ELSE Strip(RangeText(sentences, first[1], first[2])),
         covered_count |-> best]

\* C13: a call without max_length returns the largest number of target
\* tokens over all segment ranges and, as excerpt, the first range in
\* iteration order that reaches it; ("", 0) when that number is 0.
Thm_C13 ==
    call.returned /\ call.max_length = NoLimit =>
        LET sentences == Sentences(call.text)
            want == Selected(sentences, Ranges(sentences), call.target_tokens)
        IN  /\ call.covered_count = want.covered_count
            /\ call.excerpt = want.excerpt

\* "b.a.b" with target "a": the ranges [1..2], [1..3], [2..2] and [2..3] all
\* hold one target token, the call returned the first of them.
Wit_C13 ==
    /\ call.returned
    /\ call.max_length = NoLimit
    /\ call.text = <<"b", ".", "a", ".", "b">>
    /\ call.target_tokens = {<<"a">>}
    /\ call.covered_count = 1
    /\ call.excerpt = <<"b", ".", " ", "a", ".">>

\* The ranges whose accumulated text has at most n characters.
WithinLimit(sentences, n) ==
    {r \in Ranges(sentences) : Len(RangeText(sentences, r[1], r[2])) <= n}

\* C14: a call with max_length set to a number searches exactly the ranges
\* whose accumulated length, ". " joiners included, does not exceed it, for
\* every start, and its excerpt has at most max_length characters.
Claim_C14 ==
    call.returned /\ call.max_length # NoLimit =>
        LET sentences == Sentences(call.text)
            want == Selected(sentences,
                             WithinLimit(sentences, call.max_length[1]),
                             call.target_tokens)
        IN  /\ call.covered_count = want.covered_count
            /\ call.excerpt = want.excerpt
            /\ Len(call.excerpt) <= call.max_length[1]

\* The same for the limits that are not 0.
PositiveLimit_C14 ==
    call.returned /\ Truthy(call.max_length) =>
        LET sentences == Sentences(call.text)
            want == Selected(sentences,
                             WithinLimit(sentences, call.max_length[1]),
                             call.target_tokens)
        IN  /\ call.covered_count = want.covered_count
            /\ call.excerpt = want.excerpt
            /\ Len(call.excerpt) <= call.max_length[1]

\* The store after a step differs from the store before in the entry of w
\* only, which went from status `from` to status `to`.
OnlyMoved(w, from, to) ==
    /\ Has(vocab, w) /\ Get(vocab, w).status = from
    /\ Has(vocab', w) /\ Get(vocab', w).status = to
    /\ Keys(vocab') = Keys(vocab)
    /\ \A u \in Keys(vocab) \ {w} : Get(vocab', u) = Get(vocab, u)

StoreKept == vocab' = vocab /\ disk' = disk

\* C15: in the review flows only the flashcard answer "known" and the
\* spot-check answer "unknown" change the store, the first promotes the
\* shown word and nothing else, the second demotes the shown word and
\* nothing else; every answer adds 1 to the index of its flow and leaves the
\* other flow alone.
Thm_C15 ==
    [][/\ flashcard_known =>
             /\ OnlyMoved(CurrentWord(session_state.review),
                          "learning", "familiar")
             /\ disk' = Saved(vocab')
       /\ flashcard_unknown => StoreKept
       /\ flashcard_known \/ flashcard_unknown =>
             /\ session_state'.review.index = session_state.review.index + 1
             /\ session_state'.test = session_state.test
       /\ spot_check_unknown =>
             /\ OnlyMoved(CurrentWord(session_state.test),
                          "familiar", "learning")
             /\ disk' = Saved(vocab')
       /\ spot_check_known => StoreKept
       /\ spot_check_known \/ spot_check_unknown =>
             /\ session_state'.test.index = session_state.test.index + 1
             /\ session_state'.test.words = session_state.test.words
       /\ spot_check_known =>
             session_state'.review = session_state.review
       /\ (flashcard_restart \/ spot_check_again
              \/ \E test_ratio \in Ratios : spot_check_start(test_ratio)) =>
             StoreKept]_vars

\* "a" was promoted by a flashcard answer and "A" demoted by a spot-check
\* answer: both flows stand at index 1.
Wit_C15 ==
    /\ session_state.review.set /\ session_state.review.index = 1
    /\ session_state.review.words = <<W1>>
    /\ session_state.test.set /\ session_state.test.index = 1
    /\ session_state.test.words = <<W2>>
    /\ IsFamiliar(vocab, W1) /\ Get(vocab, W1).last_review = now
    /\ IsLearning(vocab, W2) /\ Get(vocab, W2).added_date = now

\* C16: the index of a round never exceeds the length of its list; an answer
\* is given below that length, adds 1 and keeps the list, so a round of n
\* words is over after n answers; a restart happens at index n and leaves
\* index 0 and a permutation of the keys that are Learning at that moment;
\* nothing but a restart, the first page with learning words and a new
\* session changes the round.
Thm_C16 ==
    /\ [](session_state.review.set =>
             session_state.review.index <= Len(session_state.review.words))
    /\ [][/\ flashcard_known \/ flashcard_unknown =>
                /\ session_state.review.index < Len(session_state.review.words)
                /\ session_state'.review =
                      [session_state.review EXCEPT !.index = @ + 1]
          /\ flashcard_restart =>
                /\ session_state.review.index = Len(session_state.review.words)
                /\ session_state'.review.set
                /\ session_state'.review.index = 0
                /\ session_state'.review.words
                      \in Perms(Keys(WithStatus(vocab, "learning")))
                /\ vocab' = vocab
          /\ ~(flashcard_known \/ flashcard_unknown \/ flashcard_restart
                  \/ new_session) =>
                \/ session_state'.review = session_state.review
                \/ /\ ~session_state.review.set
                   /\ session_state'.review \in Shuffled(vocab')]_vars

\* After the round over "a", in which "a" was promoted, "A" came back to
\* Learning through a spot check, and the round that was started holds "A"
\* and not "a".
Wit_C16 ==
    /\ session_state.review = [set |-> TRUE, index |-> 0, words |-> <<W2>>]
    /\ session_state.test.set /\ session_state.test.index = 1
    /\ IsFamiliar(vocab, W1) /\ Get(vocab, W1).last_review = now
    /\ IsLearning(vocab, W2)

\* C17: a spot check started at ratio r over N >= 1 familiar words holds
\* max(1, floor(N * r / 100)) words, no word twice, all of them familiar,
\* and stands at index 0; at r = 100 it holds every familiar word.
Thm_C17 ==
    [][\A r \in Ratios :
          spot_check_start(r) =>
             LET familiar == Keys(WithStatus(vocab, "familiar"))
                 n == Cardinality(familiar)
                 test == session_state'.test
             IN  /\ n >= 1
                 /\ test.set /\ test.index = 0
                 /\ Len(test.words) =
                       IF n * r < 100 THEN 1 ELSE (n * r) \div 100
                 /\ Cardinality(Range(test.words)) = Len(test.words)
                 /\ Range(test.words) \subseteq familiar
                 /\ r = MaxRatio => Range(test.words) = familiar]_vars

\* A spot check over both words was started and nothing was answered.
Wit_C17 ==
    /\ session_state.test.set /\ session_state.test.index = 0
    /\ Range(session_state.test.words) = {W1, W2}
    /\ Len(session_state.test.words) = 2

\* C18: the process-text button pressed with a non-empty text while no book
\* is selected changes nothing: the store in memory, the vocabulary file,
\* the text cache and the session log are what they were, also when
\* learning words are older than three days.
Claim_C18 ==
    [][\A text_input \in AppTexts \ {<<>>}, buffer_size \in BufferSizes :
          process_text(text_input, buffer_size)
             /\ session_state.book_selector = None =>
                /\ vocab' = vocab
                /\ disk' = disk
                /\ cache' = cache
                /\ db' = db]_vars

\* The titles of the table are pairwise different.
UniqueTitles ==
    \A i, j \in DOMAIN db.books :
       db.books[i].title = db.books[j].title => i = j

\* C19: no two books share a title; add_book with a title of the table
\* returns None and leaves every row of both tables as it was; add_book with
\* a title not in the table returns an id no book had and keeps the rows
\* that were there.  The form of tab 1 is the caller: a call that returns
\* lets the page be drawn, a call that raises aborts the run.
Claim_C19 ==
    /\ []UniqueTitles
    /\ [][\A new_title \in NewTitles, new_author \in NewAuthors :
             add_book_form(new_title, new_author)
                /\ Strip(new_title) # <<>> =>
                   /\ session_state'.aborted # "add_book_form"
                   /\ db'.sessions = db.sessions
                   /\ IF Strip(new_title) \in Titles(db)
                      THEN db'.books = db.books
                      ELSE /\ Len(db'.books) = Len(db.books) + 1
                           /\ SubSeq(db'.books, 1, Len(db.books)) = db.books
                           /\ db'.books[Len(db'.books)].title = Strip(new_title)
                           /\ db'.books[Len(db'.books)].id \notin BookIds(db)]_vars

Trimmed(s) ==
    LET inked == {i \in DOMAIN s : s[i] \notin Whitespace}
    IN  IF inked = {} THEN <<>>
        ELSE SubSeq(s, CHOOSE i \in inked : \A j \in inked : i <= j,
                       CHOOSE i \in inked : \A j \in inked : j <= i)

\* The position of the first comma of a line that holds one.
FirstComma(line) ==
    CHOOSE p \in DOMAIN line :
       line[p] = "," /\ \A q \in 1 .. p - 1 : line[q] # ","

\* What an import step leaves when the parts of a line are read through
\* `part`: the lines with a comma are the ones that count, the left part
\* decides between imported and skipped, and the last line that names a word
\* of the store gives it its translation; nothing else of the store changes.
ImportPost(part(_)) ==
    LET lines == SplitLines(call.csv_input, <<>>)
        valid == {i \in DOMAIN lines : "," \in Range(lines[i])}
        left(i) == part(SubSeq(lines[i], 1, FirstComma(lines[i]) - 1))
        right(i) == part(SubSeq(lines[i], FirstComma(lines[i]) + 1,
                                Len(lines[i])))
        naming(w) == {i \in valid : left(i) = w}
        last(w) == CHOOSE i \in naming(w) : \A j \in naming(w) : j <= i
    IN  /\ call'.returned
        /\ call'.imported_count =
              Cardinality({i \in valid : Has(vocab, left(i))})
        /\ call'.skipped_count =
              Cardinality({i \in valid : ~Has(vocab, left(i))})
        /\ DOMAIN vocab' = DOMAIN vocab
        /\ \A n \in DOMAIN vocab :
              LET old == vocab[n]
                  new == vocab'[n]
              IN  IF naming(old.word) = {} THEN new = old
                  ELSE /\ DOMAIN new = DOMAIN old \cup {"translation"}
                       /\ new.translation = right(last(old.word))
                       /\ \A k \in DOMAIN old \ {"translation"} :
                             new[k] = old[k]

AsWritten(s) == s

\* C21: the import takes each line by itself: a line that is blank or has
\* no comma counts nowhere; any other line is split at its first comma, and
\* when the left part is a word of the store that word gets the right part
\* as its translation and imported_count grows by 1, otherwise skipped_count
\* grows by 1; no other field of the store changes.
Claim_C21 == [][import_translations => ImportPost(AsWritten)]_vars

\* C21 as amended: as above, with the left part and the right part each
\* taken without the whitespace at their ends.
Thm_C21 == [][import_translations => ImportPost(Trimmed)]_vars

\* One line named a word of the store and gave it a translation, another
\* named no word of the store.
Wit_C21 ==
    /\ call.returned
    /\ call.imported_count = 1
    /\ call.skipped_count = 1
    /\ Len(vocab) = 1
    /\ "translation" \in DOMAIN vocab[1]
    /\ vocab[1].translation = <<"A">>

\* The maximal runs of letters of the class in text, as pairs of their first
\* and last position.
LetterRuns(text) ==
    {r \in (DOMAIN text) \X (DOMAIN text) :
        /\ r[1] <= r[2]
        /\ \A i \in r[1] .. r[2] : IsLetter(text[i])
        /\ r[1] > 1 => ~IsLetter(text[r[1] - 1])
        /\ r[2] < Len(text) => ~IsLetter(text[r[2] + 1])}

\* The runs in the order of the text.
RunsInOrder(text) ==
    LET runs == LetterRuns(text)
        nth(k) == CHOOSE r \in runs :
                     Cardinality({q \in runs : q[1] < r[1]}) = k - 1
    IN  [k \in 1 .. Cardinality(runs) |-> SubSeq(text, nth(k)[1], nth(k)[2])]

\* C22: simple_tokenize returns the maximal runs of letters of the text, in
\* the order of the text and as they are written; every other character
\* only separates, so that a run next to a digit is a token too.
Claim_C22 == call.returned => call.tokens = RunsInOrder(call.text)

\* The same for the texts in which no letter stands next to a digit.
NoDigitNextToLetter_C22 ==
    call.returned
       /\ (\A i \in 1 .. Len(call.text) - 1 :
              ~(IsLetter(call.text[i]) /\ call.text[i + 1] = "1")
              /\ ~(IsLetter(call.text[i + 1]) /\ call.text[i] = "1"))
       => call.tokens = RunsInOrder(call.text)

\* A step of the process-text button with a text and a book selected that
\* ran to its end.
Loaded(text_input, buffer_size) ==
    /\ process_text(text_input, buffer_size)
    /\ session_state.book_selector # None
    /\ session_state'.aborted = "no"

InSync == disk = Saved(vocab)

\* C24: when save_vocab raises inside mark_as_familiar, mark_as_learning,
\* increment_encounter or clean_expired_words, the store in memory is what
\* it was before the call, and a store that agreed with the file before the
\* call agrees with it after.
Claim_C24 ==
    [][call'.raised => vocab' = vocab /\ (InSync => InSync')]_vars

\* A flow that has a word to show.
InProgress(flow) == flow.set /\ flow.index < Len(flow.words)

\* C25: in tab 4, whatever was pressed in between (the cleanup button, the
\* process button, the answers of tab 5), a review index below the length of
\* review_words points at a word that is in the store as a learning word.
Claim_C25 ==
    InProgress(session_state.review) =>
        IsLearning(vocab, CurrentWord(session_state.review))

\* C26: in tab 5, whatever was pressed in between (the answers of tab 4, the
\* cleanup button, the process button), a test index below the length of
\* test_words points at a word that is in the store as a familiar word.
Thm_C26 ==
    InProgress(session_state.test) =>
        IsFamiliar(vocab, CurrentWord(session_state.test))

\* A spot check of two words after the answer "unknown" to the first, which
\* is a learning word again, with a text processed on the book.
Wit_C26 ==
    /\ session_state.test.set
    /\ Len(session_state.test.words) = 2
    /\ session_state.test.index = 1
    /\ IsLearning(vocab, session_state.test.words[1])
    /\ IsFamiliar(vocab, session_state.test.words[2])
    /\ Len(db.sessions) = 1

\* The number of positions of the token list of a text that hold a target.
Occurrences(text, targets) ==
    LET tokens == simple_tokenize(text)
    IN  Cardinality({i \in DOMAIN tokens : tokens[i] \in targets})

\* The shortest prefix of the segments, each followed by ". ", that holds
\* total occurrences of the targets; the empty prefix when total is 0.
ShortestPrefix(sentences, targets, total) ==
    LET Holds(k) == Occurrences(RangeText(sentences, 1, k), targets) >= total
        k == CHOOSE n \in 0 .. Len(sentences) :
                 Holds(n) /\ \A j \in 0 .. n - 1 : ~Holds(j)
    IN  RangeText(sentences, 1, k)

\* C27: a call without max_length returns, as covered_count, the number of
\* occurrences of target tokens in the whole text and, as excerpt, the
\* shortest prefix of the segments that holds them all (stripped): no span
\* that starts at a later segment is returned.
Thm_C27 ==
    call.returned /\ call.max_length = NoLimit =>
        LET total == Occurrences(call.text, call.target_tokens)
        IN  /\ call.covered_count = total
            /\ call.excerpt =
                  Strip(ShortestPrefix(Sentences(call.text),
                                       call.target_tokens, total))

\* ".a.a." with target "a": both occurrences are counted and the excerpt
\* starts at the first segment, which is empty, and stops before the last.
Wit_C27 ==
    /\ call.returned
    /\ call.max_length = NoLimit
    /\ call.text = <<".", "a", ".", "a", ".">>
    /\ call.target_tokens = {<<"a">>}
    /\ call.covered_count = 2
    /\ call.excerpt = <<".", " ", "a", ".", " ", "a", ".">>

\* The entries the expiry cleanup with the threshold of 3 days leaves.
KeptEntries ==
    {e \in Range(vocab) :
        ~(e.status = "learning" /\ e.added_date < now - DefaultDays)}

\* The distinct tokens of a text that are the key of no entry left.
UnknownTokens(text_input) ==
    Range(simple_tokenize(text_input)) \ {e.word : e \in KeptEntries}

\* C28: over a process-text action with buffer size B that succeeds, the
\* words inserted are tokens of the text that no entry left by the cleanup
\* has as key, there are min(B, number of those tokens) of them, each is a
\* learning word with encounter_count 0 afterwards, and every entry of
\* before that is still in the store has the status it had.
Thm_C28 ==
    [][\A text_input \in LoadTexts \ {T0}, buffer_size \in LoadBufferSizes :
          Loaded(text_input, buffer_size) =>
              LET unknown == UnknownTokens(text_input)
                  inserted == Keys(vocab') \ {e.word : e \in KeptEntries}
              IN  /\ inserted \subseteq unknown
                  /\ Cardinality(inserted)
                        = Min(buffer_size, Cardinality(unknown))
                  /\ \A word \in inserted :
                        /\ Get(vocab', word).status = "learning"
                        /\ Get(vocab', word).encounter_count = 0
                  /\ \A e \in Range(vocab) :
                        Has(vocab', e.word) =>
                            Get(vocab', e.word).status = e.status]_vars

\* The text of twelve distinct words was processed with the buffer at 10
\* on a store that knew one of them: 10 words were inserted and one unknown
\* word was left out.
Wit_C28 ==
    /\ Len(db.sessions) = 1
    /\ db.sessions[1].new_words = MinBuffer
    /\ Len(vocab) = MinBuffer + 1
    /\ IsFamiliar(vocab, W2)
    /\ Cardinality(Range(simple_tokenize(T4)) \ Keys(vocab)) = 1

====
